---------------------------- MODULE Spec2Model ----------------------------
(***************************************************************************)
(* Model of the JSON prompt builder (src/app.py): the rule-based template  *)
(* inference natural_to_template, the recursive field merge                *)
(* merge_manual_fields, the enrichment call openai_enrich and the          *)
(* "Generate JSON Prompt" handler of the page script.                      *)
(*                                                                         *)
(* Python values are tagged records.  A str is a sequence of one-character *)
(* strings, so that strip, lower, substring search, the regular            *)
(* expressions and textwrap.shorten are computed, not assumed.  A dict is  *)
(* an object on a heap (a sequence of key->value functions) and is held by *)
(* reference, so that copying, aliasing and in-place writes are visible.   *)
(***************************************************************************)
EXTENDS Integers, Sequences, FiniteSets, TLC

VARIABLES
    pc,           \* the step of a scenario; in a session "pressed" right after Generate
    tool_key,     \* tool_key     (app.py:256), the selected target tool
    user_text,    \* user_text    (app.py:271), the description as entered
    use_llm,      \* use_llm      (app.py:267)
    openai_key,   \* openai_key   (app.py:258), a str
    include_meta, \* include_meta (app.py:266)
    widgets,      \* the values of the manual override widgets (app.py:277-306), as the
                  \* tree of the manual dict the script builds from them
    openai,       \* whether `import openai` succeeded (app.py:13-16)
    jsonschema,   \* whether the jsonschema import succeeded (app.py:18-23)
    api_key,      \* openai.api_key, the module's global (app.py:216)
    latest_json,  \* st.session_state["latest_json"] as a tree (None: not set)
    template,     \* the dict natural_to_template returned, as a tree
    heap,         \* the dict objects of the latest request
    base,         \* base      (app.py:314), a heap value
    enriched,     \* enriched  (app.py:315/329), a heap value
    manual,       \* manual    (app.py:277-306), a heap value
    merged,       \* merged    (app.py:331-332), a heap value
    call,         \* the arguments of the latest merge_manual_fields call, as trees
    llm_reply,    \* what the enrichment collaborator answered in the latest request
    stages,       \* the stages the latest press of Generate ran
    messages,     \* what the latest press of Generate reported (st.error, ...)
    fault,        \* the exception the latest press raised ("" when none)
    events,       \* how many widget changes and presses the session has seen
    requests      \* the requests of concurrent sessions of one process, by session:
                  \* each one's place in the handler, the key its user entered,
                  \* the key its latest API call carried, and its presses so far
                  \* (<<>> where a single session is considered)

inputVars == <<tool_key, user_text>>
pageVars == <<use_llm, openai_key, include_meta, widgets, openai, jsonschema, api_key,
              latest_json, llm_reply, stages, messages, fault, events, requests>>
mergeVars == <<heap, base, enriched, manual, merged, call>>
vars == <<pc, inputVars, pageVars, template, mergeVars>>

---------------------------------------------------------------------------
(* Python values *)

None == [t |-> "none"]
Str(s) == [t |-> "str", s |-> s]
Num(n) == [t |-> "num", n |-> n]
Bool(b) == [t |-> "bool", b |-> b]
List(l) == [t |-> "list", l |-> l]
\* a dict written out as a tree (a literal, a parsed JSON object)
Map(m) == [t |-> "map", m |-> m]
\* a dict held by reference: the object heap[a]
Ref(a) == [t |-> "ref", a |-> a]

EmptyDict == [k \in {} |-> None]

\* d[k] = v on a dict object
Put(d, k, v) == [x \in (DOMAIN d) \cup {k} |-> IF x = k THEN v ELSE d[x]]

\* isinstance(v, dict) on a heap value
IsDict(v) == v.t = "ref"

---------------------------------------------------------------------------
(* str operations *)

\* the characters str.strip(), str.split() and the regex class \s treat as
\* whitespace, among the characters the model's texts are drawn from
Whitespace == {" ", "\t", "\n"}

\* str.strip()
Strip(s) ==
    IF \A i \in 1..Len(s) : s[i] \in Whitespace THEN <<>>
    ELSE LET lo == CHOOSE i \in 1..Len(s) :
                        /\ s[i] \notin Whitespace
                        /\ \A j \in 1..(i - 1) : s[j] \in Whitespace
             hi == CHOOSE i \in 1..Len(s) :
                        /\ s[i] \notin Whitespace
                        /\ \A j \in (i + 1)..Len(s) : s[j] \in Whitespace
         IN  SubSeq(s, lo, hi)

\* str.lower() on the letters of the model's texts
LowerChar(c) ==
    LET up == [A |-> "a", B |-> "b", C |-> "c", D |-> "d", E |-> "e", F |-> "f",
               G |-> "g", H |-> "h", I |-> "i", J |-> "j", K |-> "k", L |-> "l",
               M |-> "m", N |-> "n", O |-> "o", P |-> "p", Q |-> "q", R |-> "r",
               S |-> "s", T |-> "t", U |-> "u", V |-> "v", W |-> "w", X |-> "x",
               Y |-> "y", Z |-> "z"]
    IN  IF c \in DOMAIN up THEN up[c] ELSE c
Lower(s) == [i \in 1..Len(s) |-> LowerChar(s[i])]

\* u occurs in s at position p
PrefixAt(s, p, u) == p + Len(u) - 1 <= Len(s) /\ \A j \in 1..Len(u) : s[p + j - 1] = u[j]

\* `u in s` for str
Contains(s, u) == \E p \in 1..(Len(s) - Len(u) + 1) : PrefixAt(s, p, u)

\* any(w in s for w in words)
ContainsAny(s, words) == \E u \in words : Contains(s, u)

Digits == {"0", "1", "2", "3", "4", "5", "6", "7", "8", "9"}

\* the length of the longest run of characters of `class` that starts at p
RunAt(s, p, class) ==
    CHOOSE n \in 0..(Len(s) - p + 1) :
        /\ \A j \in p..(p + n - 1) : s[j] \in class
        /\ (p + n <= Len(s) => s[p + n] \notin class)

DigitChars == <<"0", "1", "2", "3", "4", "5", "6", "7", "8", "9">>
DigitValue(d) == (CHOOSE n \in 1..10 : DigitChars[n] = d) - 1

RECURSIVE ToInt(_)
\* int() of a string of decimal digits
ToInt(ds) ==
    IF ds = <<>> THEN 0
    ELSE 10 * ToInt(SubSeq(ds, 1, Len(ds) - 1)) + DigitValue(ds[Len(ds)])

\* textwrap.shorten(t, width=width, placeholder="..."): the whitespace is
\* collapsed (words joined by single spaces); a text that then fits is
\* returned; otherwise the words that fit together with the placeholder are
\* kept and the placeholder is appended ("..." alone when not even the first
\* word fits).  The texts of the model that do not fit hold no hyphen, so the
\* chunks are the words.
Shorten(t, width) ==
    LET s == Strip(t)
        idx == [i \in 1..Len(s) |-> i]
        Keep(i) == s[i] \notin Whitespace \/ s[i - 1] \notin Whitespace
        kept == SelectSeq(idx, Keep)
        c == [j \in 1..Len(kept) |-> IF s[kept[j]] \in Whitespace THEN " " ELSE s[kept[j]]]
        room == width - 3
        WordEnd(p) == c[p] # " " /\ (p = Len(c) \/ c[p + 1] = " ")
        ends == {p \in 1..room : p <= Len(c) /\ WordEnd(p)}
    IN  IF Len(c) <= width THEN c
        ELSE IF ends = {} THEN <<".", ".", ".">>
        ELSE LET cut == CHOOSE p \in ends : \A q \in (p + 1)..room : q \notin ends
             IN  SubSeq(c, 1, cut) \o <<".", ".", ".">>

---------------------------------------------------------------------------
(* The heap *)

RECURSIVE Store(_, _), StoreItems(_, _, _, _)
\* builds the objects of a dict tree on the heap: [heap, val]
Store(h, v) ==
    IF v.t = "map" THEN StoreItems(h, v.m, DOMAIN v.m, EmptyDict)
    ELSE [heap |-> h, val |-> v]
StoreItems(h, m, keys, acc) ==
    IF keys = {} THEN [heap |-> Append(h, acc), val |-> Ref(Len(h) + 1)]
    ELSE LET k == CHOOSE x \in keys : TRUE
             r == Store(h, m[k])
         IN  StoreItems(r.heap, m, keys \ {k}, Put(acc, k, r.val))

RECURSIVE Deref(_, _)
\* the tree a heap value stands for
Deref(h, v) ==
    IF v.t = "ref" THEN Map([k \in DOMAIN h[v.a] |-> Deref(h, h[v.a][k])])
    ELSE v

---------------------------------------------------------------------------
(* merge_manual_fields, app.py:199-208 *)

\* mutant of SkipsOverride: `if not v: continue`, which also skips 0, False
\* and empty sequences
SkipsOverride_falsy(v) ==
    \/ v.t = "none"
    \/ (v.t = "str" /\ Strip(v.s) = <<>>)
    \/ (v.t = "num" /\ v.n = 0)
    \/ (v.t = "bool" /\ ~v.b)
    \/ (v.t = "list" /\ v.l = <<>>)

\* line 202: the override values the loop skips
SkipsOverride(v) == v.t = "none" \/ (v.t = "str" /\ Strip(v.s) = <<>>)

\* line 200: merged = dict(base), a new dict object with base's items
CopyDict(h, b) == [heap |-> Append(h, h[b.a]), val |-> Ref(Len(h) + 1)]

\* mutant of BothDicts: no recursion, a dict override replaces a dict whole
BothDicts_never(h, mg, k, v) == FALSE

\* line 204: both the override value and the current value at k are dicts
BothDicts(h, mg, k, v) == IsDict(v) /\ k \in DOMAIN h[mg.a] /\ IsDict(h[mg.a][k])

RECURSIVE merge_manual_fields(_, _, _), MergeItems(_, _, _, _)
\* [heap, ret, raised]: the heap after the call, the returned value, and the
\* exception raised ("" when none): manual.items() needs a dict (line 201)
merge_manual_fields(h, b, m) ==
    LET c == CopyDict(h, b)
    IN  IF ~IsDict(m) THEN [heap |-> c.heap, ret |-> None, raised |-> "AttributeError"]
        ELSE MergeItems(c.heap, c.val, m, DOMAIN h[m.a])
\* lines 201-207: the loop over manual.items() still to run for `keys`
MergeItems(h, mg, m, keys) ==
    IF keys = {} THEN [heap |-> h, ret |-> mg, raised |-> ""]
    ELSE LET k == CHOOSE x \in keys : TRUE
             v == h[m.a][k]
             rest == keys \ {k}
         IN  IF SkipsOverride(v) THEN MergeItems(h, mg, m, rest)
             ELSE IF BothDicts(h, mg, k, v)
             THEN LET r == merge_manual_fields(h, h[mg.a][k], v)
                  IN  MergeItems([r.heap EXCEPT ![mg.a] = Put(@, k, r.ret)], mg, m, rest)
             ELSE MergeItems([h EXCEPT ![mg.a] = Put(@, k, v)], mg, m, rest)

\* line 331: merged = merge_manual_fields(base, enriched)
EnrichmentMerge(h, b, e) == merge_manual_fields(h, b, e)
\* mutant of ManualMerge: the arguments the other way round
ManualMerge_swapped(h, mg, m) == merge_manual_fields(h, m, mg)

\* line 332: merged = merge_manual_fields(merged, manual)
ManualMerge(h, mg, m) == merge_manual_fields(h, mg, m)

---------------------------------------------------------------------------
(* natural_to_template, app.py:121-197 *)

\* the string literals of natural_to_template, as character sequences
Lit ==
    [ static |-> <<"s", "t", "a", "t", "i", "c">>,
      natural |-> <<"n", "a", "t", "u", "r", "a", "l">>,
      cinematic |-> <<"c", "i", "n", "e", "m", "a", "t", "i", "c">>,
      r16_9 |-> <<"1", "6", ":", "9">>,
      r9_16 |-> <<"9", ":", "1", "6">>,
      cinematic_tracking |-> <<"c", "i", "n", "e", "m", "a", "t", "i", "c", "_", "t", "r", "a", "c", "k", "i", "n", "g">>,
      dramatic |-> <<"d", "r", "a", "m", "a", "t", "i", "c">>,
      cinematic_photorealistic |-> <<"c", "i", "n", "e", "m", "a", "t", "i", "c", "_", "p", "h", "o", "t", "o", "r", "e", "a", "l", "i", "s", "t", "i", "c">>,
      cartoon |-> <<"c", "a", "r", "t", "o", "o", "n">>,
      photorealistic |-> <<"p", "h", "o", "t", "o", "r", "e", "a", "l", "i", "s", "t", "i", "c">>,
      high |-> <<"h", "i", "g", "h">>,
      size_default |-> <<"1", "0", "2", "4", "x", "1", "0", "2", "4">>,
      negative_default |-> <<"l", "o", "w", "-", "q", "u", "a", "l", "i", "t", "y", ",", " ", "b", "l", "u", "r", "r", "y", ",", " ", "d", "e", "f", "o", "r", "m", "e", "d", ",", " ", "t", "e", "x", "t", ",", " ", "w", "a", "t", "e", "r", "m", "a", "r", "k">>,
      centered_subject |-> <<"c", "e", "n", "t", "e", "r", "e", "d", "_", "s", "u", "b", "j", "e", "c", "t">>,
      wide |-> <<"w", "i", "d", "e">>,
      illustration |-> <<"i", "l", "l", "u", "s", "t", "r", "a", "t", "i", "o", "n">>,
      python |-> <<"p", "y", "t", "h", "o", "n">>,
      javascript |-> <<"j", "a", "v", "a", "s", "c", "r", "i", "p", "t">>,
      r |-> <<"r">>,
      avoid_shell_execution |-> <<"a", "v", "o", "i", "d", "-", "s", "h", "e", "l", "l", "-", "e", "x", "e", "c", "u", "t", "i", "o", "n">>,
      file |-> <<"f", "i", "l", "e">>,
      notebook |-> <<"n", "o", "t", "e", "b", "o", "o", "k">>,
      requests |-> <<"r", "e", "q", "u", "e", "s", "t", "s">>,
      beautifulsoup4 |-> <<"b", "e", "a", "u", "t", "i", "f", "u", "l", "s", "o", "u", "p", "4">>,
      pandas |-> <<"p", "a", "n", "d", "a", "s">>,
      neutral |-> <<"n", "e", "u", "t", "r", "a", "l">>,
      standard |-> <<"s", "t", "a", "n", "d", "a", "r", "d">>,
      placeholder |-> <<".", ".", ".">>,
      x |-> <<"x">> ]

\* line 137: the alternatives of the unit group, in the order the regex tries them
DurationUnits ==
    << <<"s">>,
      <<"s", "e", "c">>,
      <<"s", "e", "c", "s">>,
      <<"s", "e", "c", "o", "n", "d", "s">>,
      <<"s", "e", "c", "o", "n", "d">>,
      <<"m">>,
      <<"m", "i", "n">>,
      <<"m", "i", "n", "u", "t", "e", "s">> >>

\* line 144
VerticalWords ==
    { <<"v", "e", "r", "t", "i", "c", "a", "l">>,
      <<"t", "i", "k", "t", "o", "k">>,
      <<"9", ":", "1", "6">> }

\* line 146
CameraWords ==
    { <<"p", "a", "n">>,
      <<"t", "i", "l", "t">>,
      <<"d", "o", "l", "l", "y">>,
      <<"z", "o", "o", "m">>,
      <<"t", "r", "a", "c", "k", "i", "n", "g">>,
      <<"f", "o", "l", "l", "o", "w">> }

\* line 148
LightingWords ==
    { <<"g", "o", "l", "d", "e", "n", " ", "h", "o", "u", "r">>,
      <<"s", "u", "n", "s", "e", "t">>,
      <<"s", "o", "f", "t", " ", "l", "i", "g", "h", "t">>,
      <<"s", "t", "u", "d", "i", "o", " ", "l", "i", "g", "h", "t">>,
      <<"d", "r", "a", "m", "a", "t", "i", "c">> }

\* line 150
PhotorealWords ==
    { <<"c", "i", "n", "e", "m", "a", "t", "i", "c">>,
      <<"f", "i", "l", "m">>,
      <<"8", "k">>,
      <<"u", "l", "t", "r", "a", " ", "r", "e", "a", "l", "i", "s", "t", "i", "c">>,
      <<"p", "h", "o", "t", "o", "r", "e", "a", "l", "i", "s", "t", "i", "c">> }

\* line 152
CartoonWords ==
    { <<"c", "a", "r", "t", "o", "o", "n">>,
      <<"2", "d">>,
      <<"a", "n", "i", "m", "e">>,
      <<"c", "e", "l", "-", "s", "h", "a", "d", "e", "d">> }

\* line 170
IllustrationWords ==
    { <<"i", "l", "l", "u", "s", "t", "r", "a", "t", "i", "o", "n">>,
      <<"v", "e", "c", "t", "o", "r">> }

\* line 175
PythonWords ==
    { <<"p", "y", "t", "h", "o", "n">>,
      <<"p", "y", " ">> }

\* line 177
JavascriptWords ==
    { <<"j", "a", "v", "a", "s", "c", "r", "i", "p", "t">>,
      <<"j", "s", " ">> }

\* line 179
RWords ==
    { <<"r", " ">>,
      <<"r", "s", "t", "u", "d", "i", "o">> }

\* line 188
ScrapeWords ==
    { <<"s", "c", "r", "a", "p", "e">>,
      <<"s", "c", "r", "a", "p", "i", "n", "g">> }

\* line 190
PandasWords ==
    { <<"p", "a", "n", "d", "a", "s">>,
      <<"d", "a", "t", "a", "f", "r", "a", "m", "e">> }

\* line 192
NotebookWords ==
    { <<"n", "o", "t", "e", "b", "o", "o", "k">>,
      <<"j", "u", "p", "y", "t", "e", "r">> }

\* datetime.utcnow().isoformat() + "Z" (lines 124, 336): the clock is not
\* part of any rule, one fixed timestamp stands for its reading
UtcNow == <<"2", "0", "2", "5", "Z">>

\* line 137: the matches of (\d+)\s*(s|sec|...|minutes) that start at p, as
\* [n: digits taken, w: whitespace taken, u: the alternative taken]
DurationMatchesAt(s, p) ==
    UNION {UNION {{[n |-> n, w |-> w, u |-> u] :
                      u \in {a \in 1..Len(DurationUnits) :
                                PrefixAt(s, p + n + w, DurationUnits[a])}} :
                  w \in 0..RunAt(s, p + n, Whitespace)} :
           n \in 1..RunAt(s, p, Digits)}

\* the match the regex engine reports among ms: quantifiers are greedy and
\* alternatives are tried in order
FirstTried(ms) ==
    CHOOSE m \in ms : \A o \in ms :
        \/ m.n > o.n
        \/ m.n = o.n /\ m.w > o.w
        \/ m.n = o.n /\ m.w = o.w /\ m.u <= o.u

\* mutant of DurationMatchStart: the last match instead of the first
DurationMatchStart_last(s) ==
    LET starts == {p \in 1..Len(s) : s[p] \in Digits /\ DurationMatchesAt(s, p) # {}}
    IN  IF starts = {} THEN 0 ELSE CHOOSE p \in starts : \A q \in starts : p >= q

\* re.search: where the leftmost match starts (0: no match)
DurationMatchStart(s) ==
    LET starts == {p \in 1..Len(s) : s[p] \in Digits /\ DurationMatchesAt(s, p) # {}}
    IN  IF starts = {} THEN 0 ELSE CHOOSE p \in starts : \A q \in starts : p <= q

\* line 133
DefaultDuration == 8
\* lines 129, 157, 182: the widths given to textwrap.shorten
SceneWidth == 600
PromptWidth == 1000
TaskWidth == 1000

\* lines 133, 137-143: the duration field
VideoDuration(lower) ==
    LET p == DurationMatchStart(lower)
    IN  IF p = 0 THEN DefaultDuration
        ELSE LET m == FirstTried(DurationMatchesAt(lower, p))
                 val == ToInt(SubSeq(lower, p, p + m.n - 1))
             IN  IF DurationUnits[m.u][1] = "m" THEN val * 60 ELSE val

\* mutant of VideoStyle: the two checks in the other order
VideoStyle_photoreal_last(lower) ==
    LET s0 == Lit.cinematic
        s1 == IF ContainsAny(lower, CartoonWords) THEN Lit.cartoon ELSE s0
    IN  IF ContainsAny(lower, PhotorealWords) THEN Lit.cinematic_photorealistic ELSE s1

\* lines 132, 150-153: the style field of a video template
VideoStyle(lower) ==
    LET s0 == Lit.cinematic
        s1 == IF ContainsAny(lower, PhotorealWords) THEN Lit.cinematic_photorealistic ELSE s0
    IN  IF ContainsAny(lower, CartoonWords) THEN Lit.cartoon ELSE s1

\* the character U+00D7 (multiplication sign) of the size pattern
TimesSign == "(U+00D7)"

\* line 164: the matches of (\d{3,4})\s*[x(U+00D7)]\s*(\d{3,4}) that start at p,
\* as [n, k: digits taken by the groups, w, v: whitespace taken around the x]
SizeMatchesAt(s, p) ==
    UNION {UNION {IF p + n + w <= Len(s) /\ s[p + n + w] \in {"x", TimesSign}
                  THEN UNION {{[n |-> n, w |-> w, v |-> v, k |-> k] :
                                  k \in {j \in 3..4 :
                                            j <= RunAt(s, p + n + w + 1 + v, Digits)}} :
                              v \in 0..RunAt(s, p + n + w + 1, Whitespace)}
                  ELSE {} :
                  w \in 0..RunAt(s, p + n, Whitespace)} :
           n \in {j \in 3..4 : j <= RunAt(s, p, Digits)}}

SizeFirstTried(ms) ==
    CHOOSE m \in ms : \A o \in ms :
        \/ m.n > o.n
        \/ m.n = o.n /\ m.w > o.w
        \/ m.n = o.n /\ m.w = o.w /\ m.v > o.v
        \/ m.n = o.n /\ m.w = o.w /\ m.v = o.v /\ m.k >= o.k

\* lines 160, 164-166: the size field, matched on the text as entered
ImageSize(text) ==
    LET starts == {p \in 1..Len(text) : text[p] \in Digits /\ SizeMatchesAt(text, p) # {}}
    IN  IF starts = {} THEN Lit.size_default
        ELSE LET p == CHOOSE q \in starts : \A r \in starts : q <= r
                 m == SizeFirstTried(SizeMatchesAt(text, p))
                 g2 == p + m.n + m.w + 1 + m.v
             IN  SubSeq(text, p, p + m.n - 1) \o Lit.x \o SubSeq(text, g2, g2 + m.k - 1)

\* lines 122-123
Stripped(text) == Strip(text)
Lowered(text) == Lower(Strip(text))

\* line 125
MetaOf(text) == Map([created_at |-> Str(UtcNow), source_text |-> Str(text)])

\* lines 127-153
VideoTemplate(text) ==
    LET t == Stripped(text)
        lower == Lowered(text)
    IN  Map([meta |-> MetaOf(text),
             scene_description |-> Str(Shorten(t, SceneWidth)),
             camera_movement |-> Str(IF ContainsAny(lower, CameraWords)
                                     THEN Lit.cinematic_tracking ELSE Lit.static),
             lighting |-> Str(IF ContainsAny(lower, LightingWords)
                              THEN Lit.dramatic ELSE Lit.natural),
             style |-> Str(VideoStyle(lower)),
             duration |-> Num(VideoDuration(lower)),
             aspect_ratio |-> Str(IF ContainsAny(lower, VerticalWords)
                                  THEN Lit.r9_16 ELSE Lit.r16_9),
             audio |-> Map([music |-> Bool(FALSE), narration |-> Bool(FALSE)])])

\* lines 155-171
ImageTemplate(text) ==
    LET t == Stripped(text)
        lower == Lowered(text)
        cine == Contains(lower, Lit.cinematic)
        illu == ContainsAny(lower, IllustrationWords)
    IN  Map([meta |-> MetaOf(text),
             prompt |-> Str(Shorten(t, PromptWidth)),
             style |-> Str(IF illu THEN Lit.illustration
                           ELSE IF cine THEN Lit.cinematic ELSE Lit.photorealistic),
             quality |-> Str(Lit.high),
             size |-> Str(ImageSize(text)),
             negative_prompt |-> Str(Lit.negative_default),
             composition |-> Str(IF cine THEN Lit.wide ELSE Lit.centered_subject)])

\* lines 173-193
CodeTemplate(text) ==
    LET t == Stripped(text)
        lower == Lowered(text)
        lang == IF ContainsAny(lower, PythonWords) THEN Lit.python
                ELSE IF ContainsAny(lower, JavascriptWords) THEN Lit.javascript
                ELSE IF ContainsAny(lower, RWords) THEN Lit.r
                ELSE Lit.python
        scrape == IF ContainsAny(lower, ScrapeWords)
                  THEN <<Str(Lit.requests), Str(Lit.beautifulsoup4)>> ELSE <<>>
        pandas == IF ContainsAny(lower, PandasWords) THEN <<Str(Lit.pandas)>> ELSE <<>>
    IN  Map([meta |-> MetaOf(text),
             task |-> Str(Shorten(t, TaskWidth)),
             language |-> Str(lang),
             requirements |-> List(scrape \o pandas),
             constraints |-> Map([no_external_network |-> Bool(FALSE),
                                  security |-> Str(Lit.avoid_shell_execution),
                                  time_complexity |-> None]),
             output_format |-> Str(IF ContainsAny(lower, NotebookWords)
                                   THEN Lit.notebook ELSE Lit.file)])

\* lines 194-195
OtherTemplate(text) ==
    Map([meta |-> MetaOf(text),
         prompt |-> Str(Stripped(text)),
         style |-> Str(Lit.neutral),
         quality |-> Str(Lit.standard),
         constraints |-> List(<<>>)])

\* the tree of the dict natural_to_template(tool, text) returns
natural_to_template(tool, text) ==
    IF tool = "veo3_video" THEN VideoTemplate(text)
    ELSE IF tool = "image" THEN ImageTemplate(text)
    ELSE IF tool = "code" THEN CodeTemplate(text)
    ELSE OtherTemplate(text)

---------------------------------------------------------------------------
(* validate_schema, app.py:40-100 and 108-119 *)

\* a property schema: the JSON types allowed, and the keywords some carry
Typed(ts) == [types |-> ts, minimum0 |-> FALSE, size_pattern |-> FALSE,
              properties |-> EmptyDict, closed |-> FALSE, items |-> {}]

\* lines 40-100
SCHEMAS ==
    [ veo3_video |->
        [ required |-> {"scene_description", "duration", "aspect_ratio", "style"},
          properties |->
            [ scene_description |-> Typed({"string"}),
              camera_movement |-> Typed({"string"}),
              lighting |-> Typed({"string"}),
              style |-> Typed({"string"}),
              duration |-> [Typed({"number"}) EXCEPT !.minimum0 = TRUE],
              aspect_ratio |-> Typed({"string"}),
              audio |-> [Typed({"object"}) EXCEPT
                           !.properties = [music |-> Typed({"boolean"}),
                                           narration |-> Typed({"boolean"})],
                           !.closed = TRUE],
              meta |-> Typed({"object"}) ] ],
      image |->
        [ required |-> {"prompt", "size", "quality"},
          properties |->
            [ prompt |-> Typed({"string"}),
              style |-> Typed({"string"}),
              quality |-> Typed({"string"}),
              size |-> [Typed({"string"}) EXCEPT !.size_pattern = TRUE],
              negative_prompt |-> Typed({"string"}),
              composition |-> Typed({"string"}),
              meta |-> Typed({"object"}) ] ],
      code |->
        [ required |-> {"task", "language", "requirements"},
          properties |->
            [ task |-> Typed({"string"}),
              language |-> Typed({"string"}),
              requirements |-> [Typed({"array"}) EXCEPT !.items = {"string"}],
              constraints |-> Typed({"object"}),
              output_format |-> Typed({"string"}),
              meta |-> Typed({"object"}) ] ],
      other |->
        [ required |-> {},
          properties |->
            [ prompt |-> Typed({"string"}),
              style |-> Typed({"string"}),
              constraints |-> Typed({"array", "string"}),
              meta |-> Typed({"object"}) ] ] ]

\* the JSON type of a value
JsonType(v) ==
    CASE v.t = "none" -> "null"
      [] v.t = "str" -> "string"
      [] v.t = "num" -> "number"
      [] v.t = "bool" -> "boolean"
      [] v.t = "list" -> "array"
      [] v.t = "map" -> "object"

\* line 70: re.search(r"^\d{2,4}x\d{2,4}$", s); $ also matches before a final newline
MatchesSizePattern(s) ==
    LET n == RunAt(s, 1, Digits)
        k == RunAt(s, n + 2, Digits)
    IN  /\ n \in 2..4
        /\ n + 1 <= Len(s) /\ s[n + 1] = "x"
        /\ k \in 2..4
        /\ \/ Len(s) = n + 1 + k
           \/ Len(s) = n + 2 + k /\ s[Len(s)] = "\n"

\* one error of the validator: the keys of err.path, the index that ends the
\* path (-1: none), the kind of err.message and the property it names
SchemaError(path, index, message, key) ==
    [path |-> path, index |-> index, message |-> message, key |-> key]

\* the errors of value v against the schema of one property without nested
\* properties
LeafErrors(path, schema, v) ==
    (IF JsonType(v) \in schema.types THEN {}
     ELSE {SchemaError(path, -1, "is not of type", "")})
    \cup (IF schema.minimum0 /\ v.t = "num" /\ v.n < 0
          THEN {SchemaError(path, -1, "is less than the minimum of 0", "")} ELSE {})
    \cup (IF schema.size_pattern /\ v.t = "str" /\ ~MatchesSizePattern(v.s)
          THEN {SchemaError(path, -1, "does not match", "")} ELSE {})
    \cup (IF schema.items # {} /\ v.t = "list"
          THEN {SchemaError(path, i - 1, "is not of type", "") :
                   i \in {j \in 1..Len(v.l) : JsonType(v.l[j]) \notin schema.items}}
          ELSE {})

\* the errors of value v against the schema of one top-level property
PropertyErrors(path, schema, v) ==
    LeafErrors(path, schema, v)
    \cup (IF v.t = "map"
          THEN UNION {LeafErrors(Append(path, k), schema.properties[k], v.m[k]) :
                         k \in DOMAIN v.m \cap DOMAIN schema.properties}
               \cup {SchemaError(path, -1, "Additional properties are not allowed", k) :
                        k \in {x \in DOMAIN v.m :
                                  schema.closed /\ x \notin DOMAIN schema.properties}}
          ELSE {})

\* lines 108-119: the errors reported for data (a tree) under the tool's schema;
\* `available` is whether the jsonschema import at lines 18-23 succeeded
validate_schema(available, tool, data) ==
    IF ~available
    THEN {SchemaError(<<>>, -1, "jsonschema package not available in runtime.", "")}
    ELSE LET schema == SCHEMAS[tool]
         IN  {SchemaError(<<>>, -1, "is a required property", k) :
                 k \in {r \in schema.required : r \notin DOMAIN data.m}}
             \cup UNION {PropertyErrors(<<k>>, schema.properties[k], data.m[k]) :
                            k \in DOMAIN data.m \cap DOMAIN schema.properties}

---------------------------------------------------------------------------
(* openai_enrich, app.py:210-246 *)

\* What the enrichment collaborator does with one call: the API call raises,
\* or it returns a text that json.loads accepts ("json", `value` the parsed
\* value), a text json.loads rejects around a {...} that it accepts
\* ("wrapped"), around a {...} that it rejects ("wrapped_bad"), or a text
\* with no {...} at all ("no_json").
Reply(kind, value) == [kind |-> kind, value |-> value]
NoReply == Reply("not called", None)

\* [result, api_key]: the dict returned, and openai.api_key after the call
openai_enrich(sdk, key, global_key, reply) ==
    IF ~sdk THEN
        [result |-> [error |-> "OpenAI SDK not installed in environment."],
         api_key |-> global_key]
    ELSE IF key = <<>> THEN
        [result |-> [error |-> "No OpenAI API key provided."], api_key |-> global_key]
    ELSE
        [api_key |-> Str(key),
         result |->
            CASE reply.kind = "raises" -> [error |-> "str(e)"]
              [] reply.kind = "json" -> [ok |-> reply.value]
              [] reply.kind = "wrapped" -> [ok |-> reply.value]
              [] reply.kind = "wrapped_bad" -> [error |-> "Failed to parse JSON"]
              [] reply.kind = "no_json" ->
                    [error |-> "No JSON found in model response.", raw |-> "text"]]

---------------------------------------------------------------------------
(* The page script, app.py:254-345 *)

ToolKeys == {"veo3_video", "image", "code", "other"}

\* the tool keys as Python strings
ToolName ==
    [ veo3_video |-> <<"v", "e", "o", "3", "_", "v", "i", "d", "e", "o">>,
      image |-> <<"i", "m", "a", "g", "e">>,
      code |-> <<"c", "o", "d", "e">>,
      other |-> <<"o", "t", "h", "e", "r">> ]

\* lines 277-306: the manual dict of a tool whose widgets are untouched
ManualAtStart(tool) ==
    CASE tool = "veo3_video" ->
            Map([scene_description |-> Str(<<>>),
                 camera_movement |-> Str(<<>>),
                 lighting |-> Str(<<>>),
                 style |-> Str(<<>>),
                 duration |-> Num(8),
                 aspect_ratio |-> Str(<<>>),
                 audio |-> Map([music |-> Bool(FALSE), narration |-> Bool(FALSE)])])
      [] tool = "image" ->
            Map([prompt |-> Str(<<>>),
                 style |-> Str(<<>>),
                 quality |-> Str(Lit.high),
                 size |-> Str(Lit.size_default),
                 negative_prompt |-> Str(<<"l", "o", "w", "-", "q", "u", "a", "l", "i", "t",
                                           "y", ",", " ", "b", "l", "u", "r", "r", "y", ",",
                                           " ", "w", "a", "t", "e", "r", "m", "a", "r", "k">>),
                 composition |-> Str(Lit.centered_subject)])
      [] tool = "code" ->
            Map([task |-> Str(<<>>),
                 language |-> Str(<<>>),
                 requirements |-> Str(<<>>),
                 constraints |-> Map([no_external_network |-> Bool(TRUE),
                                      stdlib_only |-> Bool(FALSE)]),
                 output_format |-> Str(<<"c", "o", "d", "e", "_", "b", "l", "o", "c", "k">>)])
      [] tool = "other" ->
            Map([prompt |-> Str(<<>>),
                 style |-> Str(Lit.neutral),
                 constraints |-> Str(<<>>)])

\* mutant of InputRejected: `if not user_text`, which lets whitespace-only
\* descriptions through
InputRejected_empty_only(text) == text = <<>>

\* line 311: the descriptions the handler turns down
InputRejected(text) == text = <<>> \/ Strip(text) = <<>>

\* mutant of EnrichedFields: the result dict of a failed call is itself taken
\* as the enrichment fields
EnrichedFields_raw(result) ==
    IF "error" \in DOMAIN result THEN Map([error |-> Str(<<"e">>)]) ELSE result["ok"]

\* lines 324-329: the fields taken from the result of openai_enrich
EnrichedFields(result) ==
    IF "error" \in DOMAIN result THEN Map(EmptyDict) ELSE result["ok"]

\* a message on the page: the st call, its text and, for a validation error
\* written at line 341, the error
Shown(how, text) ==
    [call |-> how, text |-> text, error |-> SchemaError(<<>>, -1, "", "")]

\* lines 316-330: [called, value, api_key, messages]
Enrichment(llm, sdk, key, global_key, reply) ==
    IF ~llm THEN
        [called |-> FALSE, value |-> Map(EmptyDict), api_key |-> global_key, messages |-> {}]
    ELSE IF ~sdk THEN
        [called |-> FALSE, value |-> Map(EmptyDict), api_key |-> global_key,
         messages |-> {Shown("error", "OpenAI SDK not available.")}]
    ELSE IF key = <<>> THEN
        [called |-> FALSE, value |-> Map(EmptyDict), api_key |-> global_key,
         messages |-> {Shown("error", "Please provide your OpenAI API key to use LLM enrichment.")}]
    ELSE LET r == openai_enrich(sdk, key, global_key, reply)
         IN  [called |-> TRUE, value |-> EnrichedFields(r.result), api_key |-> r.api_key,
              messages |->
                 IF "error" \in DOMAIN r.result
                 THEN {Shown("error", "LLM error")}
                      \cup (IF "raw" \in DOMAIN r.result THEN {Shown("code", "raw")} ELSE {})
                 ELSE {Shown("success", "LLM returned structured JSON.")}]

\* lines 334-336 on the dict mg: [heap, raised]
WriteMeta(h, mg, tool) ==
    LET h1 == IF "meta" \in DOMAIN h[mg.a] THEN h
              ELSE [Append(h, EmptyDict) EXCEPT ![mg.a] = Put(@, "meta", Ref(Len(h) + 1))]
        meta == h1[mg.a]["meta"]
    IN  IF ~IsDict(meta) THEN [heap |-> h1, raised |-> "TypeError"]
        ELSE [heap |-> [h1 EXCEPT ![meta.a] =
                           Put(Put(@, "tool_target", Str(ToolName[tool])),
                               "generated_at", Str(UtcNow))],
              raised |-> ""]

\* What a press of Generate leaves behind: the handler's variables when it
\* ends or raises (rq), the heap, the dict named merged, the exception, the
\* arguments of the last merge call, the stages run and the messages shown.
Outcome(rq, h, mg, raised, cur, ovr, ran, shown, stored) ==
    [template |-> rq.template, base |-> rq.base, enriched |-> rq.enriched,
     manual |-> rq.manual, api_key |-> rq.api_key, heap |-> h, merged |-> mg,
     raised |-> raised, call |-> [current |-> cur, overrides |-> ovr],
     stages |-> ran \cup rq.stages, messages |-> rq.messages \cup shown,
     stored |-> stored]

\* lines 337-345, merged being the dict mg of heap h
ValidateAndStore(rq, h, mg, cur, ran) ==
    LET errors == validate_schema(jsonschema, tool_key, Deref(h, mg))
        shown == IF errors # {}
                 THEN {Shown("warning", "Schema validation issues detected:"),
                       Shown("info", "You can still download the JSON")}
                      \cup {[Shown("write", x.message) EXCEPT !.error = x] : x \in errors}
                 ELSE {Shown("success", "JSON validated against schema")}
    IN  Outcome(rq, h, mg, "", cur, rq.overrides, ran \cup {"validate", "store"}, shown, TRUE)

\* lines 333-336, mw being what the writes of the metadata did
AfterMeta(rq, mg, cur, mw) ==
    IF mw.raised # ""
    THEN Outcome(rq, mw.heap, mg, mw.raised, cur, rq.overrides, {"merge", "meta"}, {}, FALSE)
    ELSE ValidateAndStore(rq, mw.heap, mg, cur, {"merge", "meta"})

\* line 332 onwards, m2 being the result of the second merge
AfterSecondMerge(rq, cur, m2) ==
    IF include_meta THEN AfterMeta(rq, m2.ret, cur, WriteMeta(m2.heap, m2.ret, tool_key))
    ELSE ValidateAndStore(rq, m2.heap, m2.ret, cur, {"merge"})

\* line 331 onwards, m1 being the result of the first merge
AfterFirstMerge(rq, m1) ==
    IF m1.raised # ""
    THEN Outcome(rq, m1.heap, None, m1.raised, rq.template, rq.found, {"merge"}, {}, FALSE)
    ELSE AfterSecondMerge(rq, Deref(m1.heap, m1.ret), ManualMerge(m1.heap, m1.ret, rq.manual))

\* lines 314-330 done: tpl is the inferred template and e the enrichment
AfterEnrichment(tpl, e) ==
    LET sm == Store(<<>>, widgets)
        sb == Store(sm.heap, tpl)
        se == Store(sb.heap, e.value)
    IN  AfterFirstMerge([template |-> tpl, base |-> sb.val, enriched |-> se.val,
                         manual |-> sm.val, api_key |-> e.api_key, found |-> e.value,
                         overrides |-> widgets, messages |-> e.messages,
                         stages |-> {"infer"} \cup (IF e.called THEN {"enrich"} ELSE {})],
                        EnrichmentMerge(se.heap, sb.val, se.val))

\* lines 314-345 for a description that is not turned down, the enrichment
\* collaborator answering `reply` if it is called
RunRequest(reply) ==
    AfterEnrichment(natural_to_template(tool_key, user_text),
                    Enrichment(use_llm, openai, openai_key, api_key, reply))

---------------------------------------------------------------------------
(* Arguments for the merge scenario: dict trees nested up to MaxDepth *)

MaxDepth == 3

Absent == [t |-> "absent"]

\* the dict with "audio": x and "style": y, a key left out when its value is Absent
Dict2(x, y) ==
    [k \in (IF x = Absent THEN {} ELSE {"audio"}) \cup (IF y = Absent THEN {} ELSE {"style"})
        |-> IF k = "audio" THEN x ELSE y]

RECURSIVE Trees(_, _, _)
\* dicts whose "audio" is a leaf of la or a dict one level deeper, and whose
\* "style" is a leaf of ls
Trees(la, ls, d) ==
    IF d = 0 THEN {}
    ELSE {Map(Dict2(x, y)) : x \in la \cup Trees(la, ls, d - 1) \cup {Absent},
                             y \in ls \cup {Absent}}

BaseTrees == Trees({Str(<<"a">>)}, {Str(<<"a">>)}, MaxDepth)
EnrichedTrees == Trees({Str(<<"e">>), None}, {}, MaxDepth)
ManualTrees ==
    Trees({None, Str(<<>>), Str(<<" ", "\n">>), Str(<<" ", "b">>), Num(0), Bool(FALSE),
           List(<<Str(<<"b">>)>>)},
          {Str(<<"\t">>)}, MaxDepth)

\* the page as it is first rendered: lines 256, 271
InputsAtStart ==
    /\ tool_key = "veo3_video"
    /\ user_text = <<>>

\* the rest of the page as it is first rendered, with both imports done:
\* lines 258, 266, 267, 277-287
PageAtStart ==
    /\ use_llm = FALSE
    /\ openai_key = <<>>
    /\ include_meta = TRUE
    /\ widgets = ManualAtStart("veo3_video")
    /\ openai = TRUE
    /\ jsonschema = TRUE
    /\ api_key = None
    /\ latest_json = None
    /\ llm_reply = NoReply
    /\ stages = {}
    /\ messages = {}
    /\ fault = ""
    /\ events = 0
    /\ requests = <<>>

\* no request has run yet
NoRequestYet ==
    /\ heap = <<>>
    /\ base = None
    /\ enriched = None
    /\ manual = None
    /\ merged = None
    /\ call = [current |-> None, overrides |-> None]

InitMerge ==
    /\ pc = "args"
    /\ InputsAtStart
    /\ PageAtStart
    /\ template = None
    /\ \E b \in BaseTrees, e \in EnrichedTrees, m \in ManualTrees :
         LET sb == Store(<<>>, b)
             se == Store(sb.heap, e)
             sm == Store(se.heap, m)
         IN  /\ heap = sm.heap
             /\ base = sb.val
             /\ enriched = se.val
             /\ manual = sm.val
    /\ merged = None
    /\ call = [current |-> None, overrides |-> None]

\* app.py:331 on its own
FirstMerge ==
    /\ pc = "args"
    /\ LET r == EnrichmentMerge(heap, base, enriched)
       IN  /\ heap' = r.heap
           /\ merged' = r.ret
    /\ call' = [current |-> Deref(heap, base), overrides |-> Deref(heap, enriched)]
    /\ pc' = "first"
    /\ UNCHANGED <<base, enriched, manual, inputVars, pageVars, template>>

\* app.py:332 on its own
SecondMerge ==
    /\ pc = "first"
    /\ LET r == ManualMerge(heap, merged, manual)
       IN  /\ heap' = r.heap
           /\ merged' = r.ret
    /\ call' = [current |-> Deref(heap, merged), overrides |-> Deref(heap, manual)]
    /\ pc' = "second"
    /\ UNCHANGED <<base, enriched, manual, inputVars, pageVars, template>>

NextMerge == FirstMerge \/ SecondMerge

SpecMerge == InitMerge /\ [][NextMerge]_vars

---------------------------------------------------------------------------
(* Descriptions for the inference scenario *)

MaxChars == 4
MaxWords == 2
MaxPad == 3
MaxDigits == 5

RECURSIVE StringsOver(_, _)
\* the strings of at most n characters of alphabet
StringsOver(alphabet, n) ==
    IF n = 0 THEN {<<>>}
    ELSE LET shorter == StringsOver(alphabet, n - 1)
         IN  shorter \cup {Append(s, c) : s \in shorter, c \in alphabet}

RECURSIVE Phrases(_, _)
\* the concatenations of at most n of the words
Phrases(words, n) ==
    IF n = 0 THEN {<<>>}
    ELSE LET shorter == Phrases(words, n - 1)
         IN  shorter \cup {s \o w : s \in shorter, w \in words}

\* n times the character c
Rep(c, n) == [i \in 1..n |-> c]

\* integers, units and other characters in every order
DurationTexts == StringsOver({"2", "3", " ", "s", "m", "M", "x"}, MaxChars)

\* the scenarios of the specification's section 8
ScenarioTexts ==
    { <<"A", " ", "2", " ", "m", "i", "n", "u", "t", "e", " ", "v", "e", "r", "t", "i",
        "c", "a", "l", " ", "c", "i", "n", "e", "m", "a", "t", "i", "c", " ", "s", "h",
        "o", "t", " ", "w", "i", "t", "h", " ", "d", "r", "a", "m", "a", "t", "i", "c",
        " ", "l", "i", "g", "h", "t", "i", "n", "g">>,
      <<"a", "n", " ", "u", "l", "t", "r", "a", " ", "r", "e", "a", "l", "i", "s", "t",
        "i", "c", " ", "c", "a", "r", "t", "o", "o", "n", " ", "a", "n", "i", "m", "e",
        " ", "s", "c", "e", "n", "e">> }

\* style keywords of both kinds, in both cases, in every order
StyleTexts ==
    Phrases(PhotorealWords \cup CartoonWords
              \cup {<<"A", "n", "i", "m", "e">>, <<"F", "I", "L", "M">>, <<" ">>, <<"a">>},
            MaxWords)

\* texts of PromptWidth and PromptWidth + 1 characters: one word, or two words
\* around a gap, with and without whitespace at the ends
BoundaryTexts ==
    LET ends == {<<>>, <<" ">>}
        gaps == {<<" ">>, <<" ", " ">>, <<"\n">>}
        Fill(lead, trail, len) == len - Len(lead) - Len(trail)
    IN  UNION {
          {lead \o Rep("a", Fill(lead, trail, len)) \o trail : lead \in ends, trail \in ends}
          \cup
          {lead \o Rep("a", n) \o gap \o Rep("b", Fill(lead, trail, len) - n - Len(gap)) \o trail :
              lead \in ends, trail \in ends, gap \in gaps, n \in 1..MaxPad}
          \cup
          {lead \o Rep("a", Fill(lead, trail, len) - n - Len(gap)) \o gap \o Rep("b", n) \o trail :
              lead \in ends, trail \in ends, gap \in gaps, n \in 1..MaxPad}
          : len \in {PromptWidth, PromptWidth + 1}}

\* two groups of 1 to MaxDigits digits around a separator, alone or inside
\* other words
SizeTexts ==
    LET seps == {<<"x">>, <<TimesSign>>, <<"X">>, <<" ", "x", " ">>, <<"-">>}
        ends == {<<>>, <<"a", " ">>}
    IN  {lead \o Rep("6", n) \o sep \o Rep("4", k) \o trail :
            lead \in ends, trail \in ends, sep \in seps,
            n \in 1..MaxDigits, k \in 1..MaxDigits}
        \cup {<<"a">>}

\* line 311: the descriptions the handler passes on to natural_to_template
NonBlank(texts) == {s \in texts : s # <<>> /\ Strip(s) # <<>>}

InferInputs ==
    ({"veo3_video"} \X NonBlank(DurationTexts \cup ScenarioTexts \cup StyleTexts))
    \cup ({"image"} \X NonBlank(BoundaryTexts \cup SizeTexts))

InitInfer ==
    /\ pc = "input"
    /\ \E inp \in InferInputs :
         /\ tool_key = inp[1]
         /\ user_text = inp[2]
    /\ template = None
    /\ NoRequestYet
    /\ PageAtStart

\* line 314 on its own: base = natural_to_template(tool_key, user_text)
Infer ==
    /\ pc = "input"
    /\ template' = natural_to_template(tool_key, user_text)
    /\ pc' = "inferred"
    /\ UNCHANGED <<inputVars, pageVars, mergeVars>>

NextInfer == Infer

SpecInfer == InitInfer /\ [][NextInfer]_vars

---------------------------------------------------------------------------
(* One session of the page *)

MaxEvents == 5

\* descriptions the user may enter
Descriptions ==
    { <<>>,
      <<" ", "\n">>,
      <<"x">>,
      <<"3", "0", " ", "s", "e", "c", "o", "n", "d", "s", " ", "5", "1", "2", "x", "5",
        "1", "2", " ", "n", "o", "t", "e", "b", "o", "o", "k">> }

\* values the user may give to a manual override widget of the tool
OverrideChoices(tool) ==
    CASE tool = "veo3_video" ->
            { <<"style", Str(Lit.cartoon)>>,
              <<"duration", Num(30)>>,
              <<"audio", Map([music |-> Bool(TRUE), narration |-> Bool(FALSE)])>> }
      [] tool = "image" ->
            { <<"size", Str(<<>>)>>,
              <<"style", Str(Lit.illustration)>> }
      [] tool = "code" ->
            { <<"language", Str(Lit.r)>>,
              <<"constraints", Map([no_external_network |-> Bool(FALSE),
                                    stdlib_only |-> Bool(TRUE)])>> }
      [] tool = "other" ->
            { <<"style", Str(<<" ">>)>>,
              <<"prompt", Str(<<"p">>)>> }

\* what the enrichment collaborator may answer
LlmReplies ==
    { Reply("raises", None),
      Reply("no_json", None),
      Reply("wrapped_bad", None),
      Reply("json", None),
      Reply("json", List(<<Num(1)>>)),
      Reply("json", Num(3)),
      Reply("json", Map([style |-> Str(<<"v", "i", "n", "t", "a", "g", "e">>),
                         audio |-> Map([music |-> Bool(TRUE), voice |-> Str(<<"f">>)])])),
      Reply("json", Map([meta |-> Str(<<"x">>)])),
      Reply("json", Map([meta |-> Map([note |-> Str(<<"x">>)])])),
      Reply("wrapped", Map([duration |-> Num(0)])) }

Init ==
    /\ pc = "idle"
    /\ InputsAtStart
    /\ use_llm = FALSE
    /\ openai_key = <<>>
    /\ include_meta = TRUE
    /\ widgets = ManualAtStart("veo3_video")
    /\ openai \in BOOLEAN
    /\ jsonschema \in BOOLEAN
    /\ api_key = None
    /\ latest_json = None
    /\ template = None
    /\ NoRequestYet
    /\ llm_reply = NoReply
    /\ stages = {}
    /\ messages = {}
    /\ fault = ""
    /\ events = 0
    /\ requests = <<>>

\* a widget is changed and the script runs again (no button is pressed)
Rerun ==
    /\ events < MaxEvents
    /\ events' = events + 1
    /\ pc' = "idle"
    /\ UNCHANGED <<openai, jsonschema, api_key, latest_json, template, mergeVars,
                   llm_reply, stages, messages, fault, requests>>

\* line 271
EnterText ==
    /\ \E text \in Descriptions \ {user_text} : user_text' = text
    /\ Rerun
    /\ UNCHANGED <<tool_key, use_llm, openai_key, include_meta, widgets>>

\* line 256: another tool is selected, its override widgets appear untouched
SelectTool ==
    /\ \E tool \in ToolKeys \ {tool_key} :
          /\ tool_key' = tool
          /\ widgets' = ManualAtStart(tool)
    /\ Rerun
    /\ UNCHANGED <<user_text, use_llm, openai_key, include_meta>>

\* lines 278-306: a manual override is entered
SetOverride ==
    /\ \E c \in OverrideChoices(tool_key) :
          /\ widgets.m[c[1]] # c[2]
          /\ widgets' = Map(Put(widgets.m, c[1], c[2]))
    /\ Rerun
    /\ UNCHANGED <<tool_key, user_text, use_llm, openai_key, include_meta>>

\* line 258
EnterKey ==
    /\ \E key \in {<<>>, <<"s", "k", "-", "A">>} \ {openai_key} : openai_key' = key
    /\ Rerun
    /\ UNCHANGED <<tool_key, user_text, use_llm, include_meta, widgets>>

\* line 267
ToggleUseLlm ==
    /\ use_llm' = ~use_llm
    /\ Rerun
    /\ UNCHANGED <<tool_key, user_text, openai_key, include_meta, widgets>>

\* line 266
ToggleIncludeMeta ==
    /\ include_meta' = ~include_meta
    /\ Rerun
    /\ UNCHANGED <<tool_key, user_text, use_llm, openai_key, widgets>>

\* the state a request that was not turned down leaves
Leaves(reply, r) ==
    /\ llm_reply' = reply
    /\ template' = r.template
    /\ heap' = r.heap
    /\ base' = r.base
    /\ enriched' = r.enriched
    /\ manual' = r.manual
    /\ merged' = r.merged
    /\ call' = r.call
    /\ stages' = r.stages
    /\ messages' = r.messages
    /\ fault' = r.raised
    /\ api_key' = r.api_key
    /\ latest_json' = IF r.stored THEN Deref(r.heap, r.merged) ELSE latest_json

\* lines 310-345: "Generate JSON Prompt" is pressed
Generate ==
    /\ events < MaxEvents
    /\ events' = events + 1
    /\ pc' = "pressed"
    /\ IF InputRejected(user_text)
       THEN /\ messages' = {Shown("error", "Please enter a natural language request.")}
            /\ stages' = {}
            /\ fault' = ""
            /\ llm_reply' = NoReply
            /\ template' = None
            /\ heap' = <<>>
            /\ base' = None
            /\ enriched' = None
            /\ manual' = None
            /\ merged' = None
            /\ call' = [current |-> None, overrides |-> None]
            /\ UNCHANGED <<latest_json, api_key>>
       ELSE \E reply \in (IF use_llm /\ openai /\ openai_key # <<>>
                          THEN LlmReplies ELSE {NoReply}) :
               Leaves(reply, RunRequest(reply))
    /\ UNCHANGED <<tool_key, user_text, use_llm, openai_key, include_meta, widgets,
                   openai, jsonschema, requests>>

Next ==
    \/ EnterText
    \/ SelectTool
    \/ SetOverride
    \/ EnterKey
    \/ ToggleUseLlm
    \/ ToggleIncludeMeta
    \/ Generate

Spec == Init /\ [][Next]_vars

\* lines 349-363, run at the end of every run of the script: what the output
\* area shows for the template the session holds
OutputArea ==
    IF latest_json = None
    THEN [shown |-> FALSE, rendered |-> None, filename_tool |-> "", schema_tool |-> "",
          v_errs |-> {}]
    ELSE [shown |-> TRUE, rendered |-> latest_json, filename_tool |-> tool_key,
          schema_tool |-> tool_key,
          v_errs |-> validate_schema(jsonschema, tool_key, latest_json)]

---------------------------------------------------------------------------
(* Sessions of one process.  Streamlit runs the script of every session in  *)
(* a thread of the same process: the names the script assigns are the       *)
(* run's own, st.session_state is the session's own, and the module openai  *)
(* with its attribute api_key is the process's.  Each session has enrichment *)
(* on and its own key entered, so that a press reaches openai_enrich and    *)
(* passes lines 212-215.  A thread can be switched out between any two      *)
(* lines, and is while it waits for the API's answer.                       *)

MaxSessions == 2
MaxPresses == 2

Sessions == 1..MaxSessions

\* the key the user of a session entered at line 258
KeyOf(s) == <<"s", "k", "-">> \o Rep("A", s)

\* the variables a request leaves alone while it is inside openai_enrich
sessionFrame ==
    <<tool_key, user_text, use_llm, openai_key, include_meta, widgets, openai, jsonschema,
      latest_json, llm_reply, stages, messages, fault, events, template, mergeVars>>

InitSessions ==
    /\ pc = "sessions"
    /\ InputsAtStart
    /\ use_llm = FALSE
    /\ openai_key = <<>>
    /\ include_meta = TRUE
    /\ widgets = ManualAtStart("veo3_video")
    /\ openai = TRUE
    /\ jsonschema \in BOOLEAN
    /\ api_key = None
    /\ latest_json = None
    /\ template = None
    /\ NoRequestYet
    /\ llm_reply = NoReply
    /\ stages = {}
    /\ messages = {}
    /\ fault = ""
    /\ events = 0
    /\ requests = [s \in Sessions |->
                     [at |-> "idle", key |-> KeyOf(s), sent |-> None, presses |-> 0]]

\* lines 310-323 and 212-215: Generate is pressed in session s and the
\* handler comes to openai_enrich with the session's key
Press(s) ==
    /\ requests[s].at = "idle"
    /\ requests[s].presses < MaxPresses
    /\ requests' = [requests EXCEPT ![s].at = "enrich", ![s].presses = @ + 1]
    /\ UNCHANGED <<pc, api_key, sessionFrame>>

\* line 216: openai.api_key = openai_key
SetApiKey(s) ==
    /\ requests[s].at = "enrich"
    /\ api_key' = Str(requests[s].key)
    /\ requests' = [requests EXCEPT ![s].at = "keyed"]
    /\ UNCHANGED <<pc, sessionFrame>>

\* lines 225-230: openai.ChatCompletion.create sends the request with the
\* key that openai.api_key holds at that moment
CallApi(s) ==
    /\ requests[s].at = "keyed"
    /\ requests' = [requests EXCEPT ![s].at = "called", ![s].sent = api_key]
    /\ UNCHANGED <<pc, api_key, sessionFrame>>

\* lines 231-246 and 324-345: the answer is handled with the run's own names
\* and stored in the session's own state
Return(s) ==
    /\ requests[s].at = "called"
    /\ requests' = [requests EXCEPT ![s].at = "idle"]
    /\ UNCHANGED <<pc, api_key, sessionFrame>>

NextSessions ==
    \E s \in Sessions :
        \/ Press(s)
        \/ SetApiKey(s)
        \/ CallApi(s)
        \/ Return(s)

SpecSessions == InitSessions /\ [][NextSessions]_vars

---------------------------------------------------------------------------
(* Claims about merge_manual_fields, checked under SpecMerge *)

\* "empty" as the specification words it: the absence marker, or a string
\* with no character that is not whitespace
BlankOrNone(v) == v = None \/ (v.t = "str" /\ \A i \in 1..Len(v.s) : v.s[i] \in Whitespace)

IsMap(v) == v.t = "map"

MergeDone == pc \in {"first", "second"}
Result == Deref(heap, merged)

RECURSIVE ManualWins(_, _)
\* every non-empty entry of the override tree o is in the tree r: as it is
\* when it is not a mapping, and entry by entry in the same way when it is
ManualWins(o, r) ==
    \A k \in DOMAIN o.m :
        ~BlankOrNone(o.m[k]) =>
            /\ k \in DOMAIN r.m
            /\ IF IsMap(o.m[k])
               THEN IsMap(r.m[k]) /\ ManualWins(o.m[k], r.m[k])
               ELSE r.m[k] = o.m[k]

\* C1 as stated: after merge(merge(base, enrichment), manual) every top-level
\* key that manual holds with a non-empty value has exactly manual's value,
\* nested mappings included.
C1_ManualValueIsFinal ==
    pc = "second" =>
        \A k \in DOMAIN call.overrides.m :
            ~BlankOrNone(call.overrides.m[k]) =>
                k \in DOMAIN Result.m /\ Result.m[k] = call.overrides.m[k]

\* C1 amended: every top-level key that manual holds with a non-empty value
\* is in the final template; a value that is not a mapping is the final value
\* as it is, and a mapping value gives a final mapping in which manual's
\* non-empty entries win in the same way at every depth (entries of base or
\* enrichment that manual does not override may remain beside them).
C1_ManualPrecedence ==
    pc = "second" => ManualWins(call.overrides, Result)

\* C1 witness: manual's "audio" is a mapping with a non-empty entry, the
\* final "audio" holds that entry and also an entry manual does not have.
C1_Witness ==
    /\ pc = "second"
    /\ "audio" \in DOMAIN call.overrides.m
    /\ IsMap(call.overrides.m["audio"])
    /\ "audio" \in DOMAIN call.overrides.m["audio"].m
    /\ call.overrides.m["audio"].m["audio"] = Num(0)
    /\ Result.m["audio"].m["audio"] = Num(0)
    /\ "style" \in DOMAIN Result.m["audio"].m
    /\ "style" \notin DOMAIN call.overrides.m["audio"].m

\* C2: in merge_manual_fields(current, overrides) an override value that is
\* None or an empty or whitespace-only string leaves the key as current has
\* it (same value, or absent), and every other override value, 0 and False
\* included, is written: the key is in the result, with the override value
\* itself unless both values are mappings (then with a mapping).
C2_MergeEmptiness ==
    MergeDone =>
        \A k \in DOMAIN call.overrides.m :
            LET v == call.overrides.m[k]
                c == call.current.m
                r == Result.m
            IN  IF BlankOrNone(v)
                THEN /\ (k \in DOMAIN r) = (k \in DOMAIN c)
                     /\ k \in DOMAIN c => r[k] = c[k]
                ELSE /\ k \in DOMAIN r
                     /\ IF IsMap(v) /\ k \in DOMAIN c /\ IsMap(c[k])
                        THEN IsMap(r[k])
                        ELSE r[k] = v

\* C2 witness: one merge in which a whitespace-only "style" override left a
\* non-empty current "style" alone and the override 0 replaced "audio".
C2_Witness ==
    /\ pc = "second"
    /\ "style" \in DOMAIN call.overrides.m
    /\ call.overrides.m["style"] = Str(<<"\t">>)
    /\ "style" \in DOMAIN call.current.m
    /\ Result.m["style"] = call.current.m["style"]
    /\ "audio" \in DOMAIN call.overrides.m
    /\ call.overrides.m["audio"] = Num(0)
    /\ "audio" \in DOMAIN call.current.m
    /\ call.current.m["audio"] # Num(0)
    /\ Result.m["audio"] = Num(0)

RECURSIVE MergedAtEveryDepth(_, _, _)
\* r holds every key of c, and each key of r has the override's value when
\* that is non-empty (merged in the same way when both are mappings) and c's
\* value otherwise
MergedAtEveryDepth(c, o, r) ==
    /\ DOMAIN c.m \subseteq DOMAIN r.m
    /\ \A k \in DOMAIN r.m :
          IF k \in DOMAIN o.m /\ ~BlankOrNone(o.m[k])
          THEN IF IsMap(o.m[k]) /\ k \in DOMAIN c.m /\ IsMap(c.m[k])
               THEN IsMap(r.m[k]) /\ MergedAtEveryDepth(c.m[k], o.m[k], r.m[k])
               ELSE r.m[k] = o.m[k]
          ELSE k \in DOMAIN c.m /\ r.m[k] = c.m[k]

\* C3: where the current and the override value at a key are both mappings
\* the result holds every nested key of current, with the override's value
\* for each nested key whose override is non-empty and current's otherwise,
\* at every depth; where either is not a mapping (a sequence, a scalar) the
\* non-empty override value replaces the current value whole.
C3_RecursiveMerge ==
    MergeDone => MergedAtEveryDepth(call.current, call.overrides, Result)

\* C3 witness: a merge two levels deep: "audio" and audio.audio are mappings
\* on both sides, the override replaces audio.audio.audio by a sequence, and
\* current's audio.audio.style and audio.style are still there.
C3_Witness ==
    /\ pc = "second"
    /\ "audio" \in DOMAIN call.current.m /\ IsMap(call.current.m["audio"])
    /\ "audio" \in DOMAIN call.overrides.m /\ IsMap(call.overrides.m["audio"])
    /\ LET c == call.current.m["audio"].m
           o == call.overrides.m["audio"].m
           r == Result.m["audio"].m
       IN  /\ "style" \in DOMAIN c /\ "style" \notin DOMAIN o
           /\ r["style"] = c["style"]
           /\ "audio" \in DOMAIN c /\ IsMap(c["audio"])
           /\ "audio" \in DOMAIN o /\ IsMap(o["audio"])
           /\ "style" \in DOMAIN c["audio"].m
           /\ "audio" \in DOMAIN c["audio"].m
           /\ c["audio"].m["audio"] = Str(<<"a">>)
           /\ o["audio"].m = [audio |-> List(<<Str(<<"b">>)>>)]
           /\ r["audio"].m = [audio |-> List(<<Str(<<"b">>)>>), style |-> c["audio"].m["style"]]

---------------------------------------------------------------------------
(* Claims about the Generate handler, checked under Spec *)

\* a description of no characters, or of whitespace only
IsBlank(text) == \A i \in 1..Len(text) : text[i] \in Whitespace

\* the latest press of Generate ran a request (its description was taken)
RequestRan == pc = "pressed" /\ ~IsBlank(user_text)

\* C4 (as stated): after a generation request the dict natural_to_template
\* returned (base) still has, at every depth, the field values it was
\* returned with.
C4_BaseKeepsItsValues ==
    (RequestRan /\ merged # None) => Deref(heap, base) = template

\* C5: a press of Generate with an empty or whitespace-only description
\* reports the input error, runs no stage (no inference, no enrichment call,
\* no merge, no validation) and leaves latest_json as it was.
C5_InputError ==
    [][(pc' = "pressed" /\ IsBlank(user_text'))
          => /\ Shown("error", "Please enter a natural language request.") \in messages'
             /\ stages' = {}
             /\ llm_reply' = NoReply
             /\ fault' = ""
             /\ latest_json' = latest_json]_vars

\* C5 happens: a whitespace-only description is turned down while the
\* session holds a template from an earlier press
C5_Witness ==
    /\ pc = "pressed"
    /\ user_text # <<>>
    /\ IsBlank(user_text)
    /\ stages = {}
    /\ latest_json # None

\* the enrichment was asked for and failed: SDK absent, no key, or the call
\* gave an error
EnrichmentFailed ==
    /\ use_llm
    /\ \/ ~openai
       \/ openai_key = <<>>
       \/ llm_reply.kind \in {"raises", "wrapped_bad", "no_json"}

\* the tree that merging only the manual fields into the inferred template
\* gives, with the meta fields when they are asked for
ManualOnly ==
    LET sb == Store(<<>>, template)
        sm == Store(sb.heap, widgets)
        m == merge_manual_fields(sm.heap, sb.val, sm.val)
        w == IF include_meta THEN WriteMeta(m.heap, m.ret, tool_key)
             ELSE [heap |-> m.heap, raised |-> ""]
    IN  Deref(w.heap, m.ret)

\* C6: when enrichment is requested and fails (no SDK, no key, or an error
\* from the call, unparseable responses included), an error is shown, the
\* request completes, and the stored template is the manual fields merged
\* into the inferred template, plus the meta fields.
C6_EnrichmentFallback ==
    (RequestRan /\ EnrichmentFailed)
       => /\ \E msg \in messages : msg.call = "error"
          /\ fault = ""
          /\ "store" \in stages
          /\ latest_json = ManualOnly

\* C6 happens: the call was made, its response held no JSON, and a manual
\* field differs from the inferred one
C6_Witness ==
    /\ RequestRan
    /\ EnrichmentFailed
    /\ llm_reply.kind = "no_json"
    /\ latest_json # template

\* C7 (as stated): every press of Generate with a non-empty description
\* runs to completion and stores a template, whatever the non-error result
\* of the enrichment call; no step raises.
C7_NoUnhandledFault ==
    RequestRan => /\ fault = ""
                  /\ {"infer", "merge", "validate", "store"} \subseteq stages
                  /\ latest_json = Deref(heap, merged)

---------------------------------------------------------------------------
(* Claims about natural_to_template, checked under SpecInfer *)

Inferred(tool) == pc = "inferred" /\ tool_key = tool

EndsWith(s, u) == Len(u) <= Len(s) /\ SubSeq(s, Len(s) - Len(u) + 1, Len(s)) = u

\* C8: for the image tool a text of exactly 1000 characters gives a prompt
\* equal to the text, and a text of 1001 characters gives a prompt that ends
\* in "..." and has at most 1000 characters.
C8_TruncationBoundary ==
    Inferred("image") =>
        LET prompt == template.m["prompt"].s
        IN  /\ Len(user_text) = 1000 => prompt = user_text
            /\ Len(user_text) = 1001 =>
                   EndsWith(prompt, <<".", ".", ".">>) /\ Len(prompt) <= 1000

\* an integer starts at p: a digit that no digit precedes
IntegerAt(s, p) == s[p] \in Digits /\ (p = 1 \/ s[p - 1] \notin Digits)

\* the integer that starts at p is followed, after any whitespace, by unit u
UnitFollows(s, p, u) ==
    LET n == RunAt(s, p, Digits)
    IN  PrefixAt(s, p + n + RunAt(s, p + n, Whitespace), u)

SecondUnits == {DurationUnits[i] : i \in 1..5}
MinuteUnits == {DurationUnits[i] : i \in 6..8}

\* where in s an integer followed by a unit starts
UnitPlaces(s) ==
    {p \in 1..Len(s) : IntegerAt(s, p) /\ \E u \in SecondUnits \cup MinuteUnits : UnitFollows(s, p, u)}

\* the duration the integer at p stands for, the unit after it being u
Seconds(s, p, u) ==
    LET val == ToInt(SubSeq(s, p, p + RunAt(s, p, Digits) - 1))
    IN  IF u \in MinuteUnits THEN 60 * val ELSE val

\* C9 as stated: for veo3_video, duration is N for an integer N in the text
\* that a unit of seconds follows, 60*N for one that a unit of minutes
\* follows, and 8 when no integer in the text is followed by a unit (letter
\* case ignored).
C9_EveryUnitSetsDuration ==
    Inferred("veo3_video") =>
        LET s == Lower(user_text)
            duration == template.m["duration"].n
        IN  /\ \A p \in UnitPlaces(s) : \A u \in SecondUnits \cup MinuteUnits :
                   UnitFollows(s, p, u) => duration = Seconds(s, p, u)
            /\ UnitPlaces(s) = {} => duration = 8

\* C9 amended: duration is set by the leftmost integer in the text that a
\* unit follows (after optional whitespace, letter case ignored): N for a
\* unit of seconds, 60*N for a unit of minutes; it is 8 when there is none.
C9_LeftmostUnitSetsDuration ==
    Inferred("veo3_video") =>
        LET s == Lower(user_text)
            duration == template.m["duration"].n
        IN  /\ \A p \in UnitPlaces(s) : \A u \in SecondUnits \cup MinuteUnits :
                   (UnitFollows(s, p, u) /\ \A q \in UnitPlaces(s) : p <= q)
                       => duration = Seconds(s, p, u)
            /\ UnitPlaces(s) = {} => duration = 8

\* C9 witness: "2m3s": two integers with units, the duration is the 120
\* seconds of the left one.
C9_Witness ==
    /\ Inferred("veo3_video")
    /\ user_text = <<"2", "m", "3", "s">>
    /\ template.m["duration"] = Num(120)

\* C10: for veo3_video, a text that contains a cartoon keyword (in any letter
\* case) gets style "cartoon", also beside a photorealistic keyword; style is
\* "cinematic_photorealistic" exactly when a photorealistic keyword is there
\* and no cartoon keyword is.
C10_CartoonPrecedence ==
    Inferred("veo3_video") =>
        LET s == Lower(user_text)
            style == template.m["style"].s
            cartoon == \E w \in CartoonWords : Contains(s, w)
            photoreal == \E w \in PhotorealWords : Contains(s, w)
        IN  /\ cartoon => style = Lit.cartoon
            /\ (style = Lit.cinematic_photorealistic) = (photoreal /\ ~cartoon)

\* C10 witness: "FILM" and "Anime" in one text, the style is "cartoon".
C10_Witness ==
    /\ Inferred("veo3_video")
    /\ user_text = <<"F", "I", "L", "M", "A", "n", "i", "m", "e">>
    /\ template.m["style"] = Str(Lit.cartoon)

\* the parts of s made of 2 to 4 digits, an "x" or a multiplication sign,
\* and 2 to 4 digits
SizePatternsIn(s) ==
    {SubSeq(s, g[1], g[1] + g[2] + g[3]) :
        g \in {h \in (1..Len(s)) \X (2..4) \X (2..4) :
                  LET p == h[1]
                      n == h[2]
                      k == h[3]
                  IN  /\ p + n + k <= Len(s)
                      /\ \A i \in p..(p + n - 1) : s[i] \in Digits
                      /\ s[p + n] \in {"x", TimesSign}
                      /\ \A i \in (p + n + 1)..(p + n + k) : s[i] \in Digits}}

\* C11 (as stated): for the image tool, when the text contains two groups of
\* 2 to 4 digits separated by "x" or the multiplication sign, size is that
\* part of the text as it is written; otherwise size is "1024x1024".
C11_SizePatternVerbatim ==
    Inferred("image") =>
        LET size == template.m["size"].s
        IN  IF SizePatternsIn(user_text) # {}
            THEN size \in SizePatternsIn(user_text)
            ELSE size = Lit.size_default

---------------------------------------------------------------------------
(* Claims about the output area, checked under Spec *)

\* the session holds a template that names the tool it was generated for
NamesItsTool ==
    /\ latest_json # None
    /\ "meta" \in DOMAIN latest_json.m
    /\ IsMap(latest_json.m["meta"])
    /\ "tool_target" \in DOMAIN latest_json.m["meta"].m

\* C13 (as stated): after any sequence of presses and tool selections, the
\* tool whose schema the validation summary uses, and the tool in the
\* download filename, is the tool the displayed template was generated for
\* (its meta.tool_target).
C13_TemplateToolConsistency ==
    NamesItsTool =>
        /\ Str(ToolName[OutputArea.schema_tool]) = latest_json.m["meta"].m["tool_target"]
        /\ Str(ToolName[OutputArea.filename_tool]) = latest_json.m["meta"].m["tool_target"]

\* the latest press ran a request to its end with enrichment off and every
\* manual override widget as it is first shown
UntouchedRequest ==
    /\ RequestRan
    /\ fault = ""
    /\ ~use_llm
    /\ widgets = ManualAtStart(tool_key)

\* C14 (as stated): with every manual override widget at its initial value
\* and enrichment off, the stored template has, for every inferred field,
\* the value natural_to_template gave it.
C14_InferredValuesSurvive ==
    UntouchedRequest =>
        \A k \in DOMAIN template.m \ {"meta"} :
            k \in DOMAIN latest_json.m /\ latest_json.m[k] = template.m[k]

---------------------------------------------------------------------------
(* Claims about concurrent sessions, checked under SpecSessions *)

\* C12 (as stated): under every interleaving of the requests of two
\* sessions, the key an enrichment call of a session carries is the key that
\* session supplied.
C12_CallCarriesOwnKey ==
    pc = "sessions" =>
        \A s \in Sessions :
            requests[s].at = "called" => requests[s].sent = Str(requests[s].key)

=============================================================================
